---- MODULE Spec2Model ----
(***************************************************************************)
(* State-machine model of AppComponent (src/src/app.component.ts, the      *)
(* version with the placement test and the vocabulary quiz, lines          *)
(* 564-1227).  The component's signals and private fields are the          *)
(* variables; every handler is one action that runs the handler up to its  *)
(* first await and then flushes the effects registered in the constructor; *)
(* every continuation after an await is an action of its own, enabled      *)
(* while its request is in flight.                                         *)
(***************************************************************************)
EXTENDS Integers, Sequences, FiniteSets, TLC

(***************************************************************************)
(* Bounds of the model.                                                    *)
(***************************************************************************)
\* fragments one streamed response delivers at most
MaxFragments == 2
\* chat requests (greetings and messages) made in one run at most
MaxChatRequests == 2
\* questions in one generated test or quiz at most
MaxQuestions == 2
\* quiz requests (generations and feedbacks) made in one run at most
MaxQuizRequests == 3
\* evaluations of one placement test at most
MaxEvaluations == 2
\* home content requests made in one run at most
MaxHomeRequests == 2
\* messages of a stored conversation at a reload at most
MaxStoredMessages == 1

(***************************************************************************)
(* Values.                                                                 *)
(***************************************************************************)
\* JavaScript null (a signal's value, or getItem of an absent entry)
Null == "null"
\* JavaScript undefined (a property the parsed response does not have)
Undefined == "<undefined>"
\* an absent optional value, and a present one
None == <<>>
Some(x) == <<x>>

EnglishLevels == {"Beginner", "Intermediate", "Advanced"}

\* the error texts the component sets
ApiKeyError == "API key not configured. Please set API_KEY."
HomeKeyError == "User name not found or API key not configured."
AiError == "Failed to get response from AI."

\* the text of the k-th fragment of a streamed response (the component never
\* looks into a fragment: only whether the text so far is empty matters)
FragmentTexts == <<"a", "b", "c", "d", "e", "f">>
Fragment(k) == FragmentTexts[k]

\* the inputs a user types, the names, the options of a question
UserInputs == {"", " ", "hi"}
Names == {"", " ", "Lena"}
Options == {"A", "B"}

\* String.prototype.trim on the inputs of the model
Trim(s) == IF s \in {"", " ", "  "} THEN "" ELSE s

\* all sequences over S of length at most n
RECURSIVE SeqsUpTo(_, _)
SeqsUpTo(S, n) ==
  IF n = 0 THEN {<<>>}
  ELSE LET shorter == SeqsUpTo(S, n - 1)
       IN shorter \cup {Append(s, x) : s \in {t \in shorter : Len(t) = n - 1}, x \in S}

\* the questions the gateway may put in a placement test
TestQuestionPool ==
  { [question |-> "q1", correct_answer |-> "A"],
    [question |-> "q2", correct_answer |-> "B"] }
\* the questions the gateway puts in a vocabulary quiz, in their order
VocabularyQuestionPool ==
  << [question |-> "w1", correct_answer |-> "A", definition |-> "d1"],
     [question |-> "w2", correct_answer |-> "B", definition |-> "d2"],
     [question |-> "w3", correct_answer |-> "A", definition |-> "d3"],
     [question |-> "w4", correct_answer |-> "B", definition |-> "d4"] >>

(***************************************************************************)
(* JSON.stringify / JSON.parse of the message log (the chatHistory entry). *)
(* The stored form is an array of [role, text] pairs.                      *)
(***************************************************************************)
Stringify(msgs) == [i \in 1..Len(msgs) |-> <<msgs[i].role, msgs[i].text>>]
Parse(json) == [i \in 1..Len(json) |-> [role |-> json[i][1], text |-> json[i][2]]]

\* localStorage.setItem turns its value into a string
ToStorageString(v) == IF v = Undefined THEN "undefined" ELSE v

(***************************************************************************)
(* State.                                                                  *)
(***************************************************************************)
VARIABLES
  \* signals of the component (lines 565-596)
  appState, uiLanguage, theme, userName, messages, userInput, isLoading, error,
  homeContent, homeIsLoading, homeError,
  englishLevel, placementTestState, testQuestions, currentQuestionIndex,
  userAnswers, selectedAnswer, testResult,
  vocabularyQuizState, vocabularyQuestions, currentVocabularyQuestionIndex,
  selectedVocabularyAnswer, userVocabularyAnswers, vocabularyQuizResult,
  isAnswerChecked,
  \* private chat: TRUE once a chat session has been created (line 611)
  chat,
  \* process.env.API_KEY is set
  apiKey,
  \* window.localStorage, one field per key (Null: no entry; chatHistory: None
  \* or Some(json))
  localStorage,
  \* the signals the entry effect (lines 644-655) read in its last run
  effectDeps,
  \* the suspended async calls, in the order they were started: each holds
  \* the call's local variables
  pending,
  \* history: the chat sessions created (chats.create), with what the log and
  \* the chatHistory entry were at that moment
  sessions,
  \* history: the number of chat requests (greetings, messages) made so far
  chatRequests,
  \* history: the quiz requests made so far
  quizRequests,
  \* history: the home content requests made so far
  homeRequests,
  \* the standalone greeting component (src/unnamed/part_000): its signals
  \* greeting, isLoading and error, and where its ngOnInit is
  greeter,
  \* history: the evaluation requests sent, and the answer last submitted for
  \* each placement question
  evaluations, submitted

vars ==
  << appState, uiLanguage, theme, userName, messages, userInput, isLoading, error,
     homeContent, homeIsLoading, homeError,
     englishLevel, placementTestState, testQuestions, currentQuestionIndex,
     userAnswers, selectedAnswer, testResult,
     vocabularyQuizState, vocabularyQuestions, currentVocabularyQuestionIndex,
     selectedVocabularyAnswer, userVocabularyAnswers, vocabularyQuizResult,
     isAnswerChecked, chat, apiKey, localStorage, effectDeps, pending,
     sessions, chatRequests, quizRequests, homeRequests, evaluations,
     submitted, greeter >>

\* the state as one record, with the dirty flags of the effects (which are
\* always clear between two actions, since every action ends with a flush)
World ==
  [ appState |-> appState, uiLanguage |-> uiLanguage, theme |-> theme,
    userName |-> userName, messages |-> messages, userInput |-> userInput,
    isLoading |-> isLoading, error |-> error,
    homeContent |-> homeContent, homeIsLoading |-> homeIsLoading,
    homeError |-> homeError,
    englishLevel |-> englishLevel, placementTestState |-> placementTestState,
    testQuestions |-> testQuestions, currentQuestionIndex |-> currentQuestionIndex,
    userAnswers |-> userAnswers, selectedAnswer |-> selectedAnswer,
    testResult |-> testResult,
    vocabularyQuizState |-> vocabularyQuizState,
    vocabularyQuestions |-> vocabularyQuestions,
    currentVocabularyQuestionIndex |-> currentVocabularyQuestionIndex,
    selectedVocabularyAnswer |-> selectedVocabularyAnswer,
    userVocabularyAnswers |-> userVocabularyAnswers,
    vocabularyQuizResult |-> vocabularyQuizResult,
    isAnswerChecked |-> isAnswerChecked,
    chat |-> chat, apiKey |-> apiKey, localStorage |-> localStorage,
    effectDeps |-> effectDeps, pending |-> pending,
    sessions |-> sessions, chatRequests |-> chatRequests,
    quizRequests |-> quizRequests, homeRequests |-> homeRequests,
    greeter |-> greeter,
    evaluations |-> evaluations, submitted |-> submitted,
    entryDirty |-> FALSE, historyDirty |-> FALSE, themeDirty |-> FALSE ]

\* the next state is the record w
Commit(w) ==
  /\ appState' = w.appState
  /\ uiLanguage' = w.uiLanguage
  /\ theme' = w.theme
  /\ userName' = w.userName
  /\ messages' = w.messages
  /\ userInput' = w.userInput
  /\ isLoading' = w.isLoading
  /\ error' = w.error
  /\ homeContent' = w.homeContent
  /\ homeIsLoading' = w.homeIsLoading
  /\ homeError' = w.homeError
  /\ englishLevel' = w.englishLevel
  /\ placementTestState' = w.placementTestState
  /\ testQuestions' = w.testQuestions
  /\ currentQuestionIndex' = w.currentQuestionIndex
  /\ userAnswers' = w.userAnswers
  /\ selectedAnswer' = w.selectedAnswer
  /\ testResult' = w.testResult
  /\ vocabularyQuizState' = w.vocabularyQuizState
  /\ vocabularyQuestions' = w.vocabularyQuestions
  /\ currentVocabularyQuestionIndex' = w.currentVocabularyQuestionIndex
  /\ selectedVocabularyAnswer' = w.selectedVocabularyAnswer
  /\ userVocabularyAnswers' = w.userVocabularyAnswers
  /\ vocabularyQuizResult' = w.vocabularyQuizResult
  /\ isAnswerChecked' = w.isAnswerChecked
  /\ chat' = w.chat
  /\ apiKey' = w.apiKey
  /\ localStorage' = w.localStorage
  /\ effectDeps' = w.effectDeps
  /\ pending' = w.pending
  /\ sessions' = w.sessions
  /\ chatRequests' = w.chatRequests
  /\ quizRequests' = w.quizRequests
  /\ homeRequests' = w.homeRequests
  /\ greeter' = w.greeter
  /\ evaluations' = w.evaluations
  /\ submitted' = w.submitted

(***************************************************************************)
(* Signals.  set() of a primitive notifies the signal's consumers when the *)
(* value changes; set() of a fresh array or object always does.            *)
(***************************************************************************)
ReferenceSignals ==
  {"messages", "testQuestions", "userAnswers", "vocabularyQuestions",
   "userVocabularyAnswers", "homeContent"}

SetSignal(w, name, value) ==
  LET notified == name \in ReferenceSignals \/ w[name] # value
  IN [w EXCEPT ![name] = value,
               !.entryDirty = @ \/ (notified /\ name \in w.effectDeps),
               !.historyDirty = @ \/ (notified /\ name = "messages"),
               !.themeDirty = @ \/ (notified /\ name = "theme")]

\* localStorage.setItem / removeItem
SetItem(w, key, value) == [w EXCEPT !.localStorage[key] = value]
RemoveItem(w, key) ==
  [w EXCEPT !.localStorage[key] = IF key = "chatHistory" THEN None ELSE Null]

\* a call suspends at an await: its continuation joins the calls in flight
Await(w, call) == [w EXCEPT !.pending = Append(@, call)]

\* the calls in flight without the i-th
RemoveAt(s, i) == [j \in 1..(Len(s) - 1) |-> IF j < i THEN s[j] ELSE s[j + 1]]
Resume(w, i) == [w EXCEPT !.pending = RemoveAt(@, i)]

(***************************************************************************)
(* handleError (lines 1124-1134).                                          *)
(***************************************************************************)
NonEmptyMessages(msgs) == SelectSeq(msgs, LAMBDA m : m.text # "")

handleError(w, context) ==
  IF context = "home"
  THEN SetSignal(w, "homeError", AiError)
  ELSE SetSignal(SetSignal(w, "error", AiError),
                 "messages", NonEmptyMessages(w.messages))

(***************************************************************************)
(* initializeChat up to its first await (lines 698-732).  origin is the    *)
(* caller: the entry effect or clearChat.                                  *)
(***************************************************************************)
\* the locals of a call awaiting chat.sendMessageStream: streamingText, and as
\* history the fragments received, the log as the call found it, the place
\* in the log where the call put its placeholder and whether the conversation
\* was cleared while the call was in flight
NewStream(op, logBefore) ==
  [op |-> op, phase |-> "request", streamingText |-> "", received |-> <<>>,
   logBefore |-> logBefore, slot |-> 0, cleared |-> FALSE]

\* chat.sendMessageStream is called and awaited
StartStream(w, op, logBefore) ==
  [Await(w, NewStream(op, logBefore)) EXCEPT !.chatRequests = @ + 1]

\* initializeChat that does not keep the session it creates
initializeChatForgetful(w, origin) ==
  IF ~w.apiKey
  THEN SetSignal(w, "error", ApiKeyError)
  ELSE LET created ==
             [w EXCEPT !.sessions = Append(@,
                          [origin |-> origin,
                           logEmpty |-> w.messages = <<>>,
                           stored |-> w.localStorage.chatHistory # None])]
           storedHistory == created.localStorage.chatHistory
       IN IF storedHistory # None /\ Len(Parse(storedHistory[1])) > 0
          THEN SetSignal(created, "messages", Parse(storedHistory[1]))
          ELSE StartStream(SetSignal(created, "isLoading", TRUE), "greeting",
                            created.messages)

initializeChat(w, origin) ==
  IF ~w.apiKey
  THEN SetSignal(w, "error", ApiKeyError)
  ELSE LET created ==
             [w EXCEPT !.chat = TRUE,
                       !.sessions = Append(@,
                          [origin |-> origin,
                           logEmpty |-> w.messages = <<>>,
                           stored |-> w.localStorage.chatHistory # None])]
           storedHistory == created.localStorage.chatHistory
       IN IF storedHistory # None /\ Len(Parse(storedHistory[1])) > 0
          THEN SetSignal(created, "messages", Parse(storedHistory[1]))
          ELSE StartStream(SetSignal(created, "isLoading", TRUE), "greeting",
                            created.messages)

(***************************************************************************)
(* loadHomeContent up to its await (lines 875-927).                        *)
(***************************************************************************)
loadHomeContent(w) ==
  IF w.userName = "" \/ ~w.apiKey
  THEN SetSignal(w, "homeError", HomeKeyError)
  ELSE [Await(SetSignal(SetSignal(w, "homeIsLoading", TRUE), "homeError", Null),
              [op |-> "home"])
        EXCEPT !.homeRequests = @ + 1]

(***************************************************************************)
(* generatePlacementTest up to its await (lines 758-791).  Without an API  *)
(* key the GoogleGenAI constructor throws inside the try block.            *)
(***************************************************************************)
generatePlacementTest(w) ==
  LET started == SetSignal(SetSignal(w, "homeError", Null),
                           "placementTestState", "generating")
  IN IF ~w.apiKey
     THEN handleError(started, "home")
     ELSE Await(started, [op |-> "placement"])

(***************************************************************************)
(* The effects of the constructor.                                         *)
(***************************************************************************)
\* the running effect has read the signals deps
Track(w, deps) == [w EXCEPT !.effectDeps = @ \cup deps]

\* the entry effect (lines 644-655); the signals read by the synchronous part
\* of the functions it calls are dependencies of the effect as well
EntryEffect(w) ==
  LET state == w.appState
      w0 == [w EXCEPT !.entryDirty = FALSE]
      inChat == state \in {"home", "chatting"}
      startChat == inChat /\ w0.userName # "" /\ ~w0.chat
      deps1 == {"appState"}
               \cup (IF inChat THEN {"userName"} ELSE {})
               \cup (IF startChat /\ w0.apiKey THEN {"englishLevel"} ELSE {})
      w1 == IF startChat THEN initializeChat(Track(w0, deps1), "entry") ELSE w0
      atHome == state = "home"
      startLoad == atHome /\ w1.homeContent = Null /\ ~w1.homeIsLoading
      deps2 == IF ~atHome THEN {}
               ELSE {"homeContent"}
                    \cup (IF w1.homeContent = Null THEN {"homeIsLoading"} ELSE {})
                    \cup (IF startLoad THEN {"userName"} ELSE {})
                    \cup (IF startLoad /\ w1.userName # "" /\ w1.apiKey
                          THEN {"uiLanguage", "englishLevel"} ELSE {})
      w2 == IF startLoad THEN loadHomeContent(Track(w1, deps1 \cup deps2)) ELSE w1
      atTest == state = "placementTest"
      startTest == atTest /\ Len(w2.testQuestions) = 0
      deps3 == IF atTest THEN {"testQuestions"} ELSE {}
      w3 == IF startTest
            THEN generatePlacementTest(Track(w2, deps1 \cup deps2 \cup deps3))
            ELSE w2
  IN [w3 EXCEPT !.effectDeps = deps1 \cup deps2 \cup deps3]

\* the chatHistory effect (lines 657-661)
HistoryEffect(w) ==
  LET w0 == [w EXCEPT !.historyDirty = FALSE]
  IN IF Len(w0.messages) > 0
     THEN SetItem(w0, "chatHistory", Some(Stringify(w0.messages)))
     ELSE w0

\* the theme effect (lines 663-671)
ThemeEffect(w) == SetItem([w EXCEPT !.themeDirty = FALSE], "theme", w.theme)

\* change detection after a handler or a continuation has run: the effects
\* whose dependencies were notified run until none is dirty
RECURSIVE Flush(_)
Flush(w) ==
  IF w.entryDirty THEN Flush(EntryEffect(w))
  ELSE IF w.historyDirty THEN Flush(HistoryEffect(w))
  ELSE IF w.themeDirty THEN Flush(ThemeEffect(w))
  ELSE w


(***************************************************************************)
(* Construction.  localStorage holds what earlier runs of the application  *)
(* left in it; the effects have run once, with appState = 'loading'.       *)
(***************************************************************************)
StoredLog == <<[role |-> "model", text |-> "a"]>>

InitialStorages ==
  LET empty == [userName |-> Null, uiLanguage |-> Null, englishLevel |-> Null,
                theme |-> "dark", chatHistory |-> None]
      lang == [empty EXCEPT !.uiLanguage = "en"]
      named == [lang EXCEPT !.userName = "Lena"]
      placed == [named EXCEPT !.englishLevel = "Beginner"]
      chatted == [placed EXCEPT !.chatHistory = Some(Stringify(StoredLog))]
  IN {empty, lang, named, placed, chatted}

Init ==
  /\ appState = "loading"
  /\ uiLanguage = "en"
  /\ theme = "dark"
  /\ userName = ""
  /\ messages = <<>>
  /\ userInput = ""
  /\ isLoading = FALSE
  /\ error = Null
  /\ homeContent = Null
  /\ homeIsLoading = FALSE
  /\ homeError = Null
  /\ englishLevel = Null
  /\ placementTestState = "generating"
  /\ testQuestions = <<>>
  /\ currentQuestionIndex = 0
  /\ userAnswers = <<>>
  /\ selectedAnswer = Null
  /\ testResult = None
  /\ vocabularyQuizState = "generating"
  /\ vocabularyQuestions = <<>>
  /\ currentVocabularyQuestionIndex = 0
  /\ selectedVocabularyAnswer = Null
  /\ userVocabularyAnswers = <<>>
  /\ vocabularyQuizResult = None
  /\ isAnswerChecked = FALSE
  /\ chat = FALSE
  /\ apiKey \in BOOLEAN
  /\ localStorage \in InitialStorages
  /\ effectDeps = {"appState"}
  /\ pending = <<>>
  /\ sessions = <<>>
  /\ chatRequests = 0
  /\ quizRequests = 0
  /\ homeRequests = 0
  /\ greeter = [phase |-> "created", greeting |-> Null, isLoading |-> TRUE,
                error |-> Null]
  /\ evaluations = <<>>
  /\ submitted = <<>>

(***************************************************************************)
(* A restart of the application: the page is loaded again, the component   *)
(* is constructed anew (565-612, initializeTheme 674-678) over the         *)
(* localStorage the last run left, and the calls in flight are gone.       *)
(***************************************************************************)
Constructed(storage, key) ==
  [appState |-> "loading", uiLanguage |-> "en", theme |-> storage.theme,
   userName |-> "", messages |-> <<>>, userInput |-> "", isLoading |-> FALSE,
   error |-> Null, homeContent |-> Null, homeIsLoading |-> FALSE,
   homeError |-> Null, englishLevel |-> Null,
   placementTestState |-> "generating", testQuestions |-> <<>>,
   currentQuestionIndex |-> 0, userAnswers |-> <<>>, selectedAnswer |-> Null,
   testResult |-> None, vocabularyQuizState |-> "generating",
   vocabularyQuestions |-> <<>>, currentVocabularyQuestionIndex |-> 0,
   selectedVocabularyAnswer |-> Null, userVocabularyAnswers |-> <<>>,
   vocabularyQuizResult |-> None, isAnswerChecked |-> FALSE, chat |-> FALSE,
   apiKey |-> key, localStorage |-> storage, effectDeps |-> {"appState"},
   pending |-> <<>>, sessions |-> <<>>, chatRequests |-> 0,
   quizRequests |-> 0, homeRequests |-> 0, evaluations |-> <<>>,
   submitted |-> <<>>,
   greeter |-> [phase |-> "created", greeting |-> Null, isLoading |-> TRUE,
                error |-> Null],
   entryDirty |-> FALSE, historyDirty |-> FALSE, themeDirty |-> FALSE]

Restart ==
  /\ appState # "loading"
  /\ Commit(Constructed(localStorage, apiKey))

\* toggleTheme (680-682)
toggleTheme(w) ==
  SetSignal(w, "theme", IF w.theme = "dark" THEN "light" ELSE "dark")

ToggleTheme ==
  /\ appState # "loading"
  /\ Commit(Flush(toggleTheme(World)))

(***************************************************************************)
(* The startup timer (lines 619-636).                                      *)
(***************************************************************************)
\* startup that takes every named user to home
startupIgnoringLevel(w) ==
  LET storedName == w.localStorage.userName
      storedLang == w.localStorage.uiLanguage
  IN IF storedName \notin {Null, ""} /\ storedLang \notin {Null, ""}
     THEN SetSignal(SetSignal(SetSignal(w, "userName", storedName),
                              "uiLanguage", storedLang),
                    "appState", "home")
     ELSE SetSignal(w, "appState", "languageSelection")

startup(w) ==
  LET storedName == w.localStorage.userName
      storedLang == w.localStorage.uiLanguage
      storedLevel == w.localStorage.englishLevel
  IN IF storedName \notin {Null, ""} /\ storedLang \notin {Null, ""}
     THEN LET named == SetSignal(SetSignal(w, "userName", storedName),
                                 "uiLanguage", storedLang)
          IN IF storedLevel \notin {Null, ""}
             THEN SetSignal(SetSignal(named, "englishLevel", storedLevel),
                            "appState", "home")
             ELSE SetSignal(named, "appState", "placementTest")
     ELSE SetSignal(w, "appState", "languageSelection")

Timer ==
  /\ appState = "loading"
  /\ Commit(Flush(startup(World)))

(***************************************************************************)
(* The continuation of loadHomeContent (929-937).                          *)
(***************************************************************************)
\* the content the gateway writes for the home screen
HomeContentValue == "content"

homeLoaded(w, i) ==
  SetSignal(SetSignal(Resume(w, i), "homeContent", HomeContentValue),
            "homeIsLoading", FALSE)

homeFailed(w, i) ==
  SetSignal(handleError(Resume(w, i), "home"), "homeIsLoading", FALSE)

HomeResolve ==
  \E i \in 1..Len(pending) :
    /\ pending[i].op = "home"
    /\ Commit(Flush(homeLoaded(World, i)))

HomeFail ==
  \E i \in 1..Len(pending) :
    /\ pending[i].op = "home"
    /\ homeRequests < MaxHomeRequests
    /\ Commit(Flush(homeFailed(World, i)))

(***************************************************************************)
(* Navigation (lines 690-696).                                             *)
(***************************************************************************)
\* navigateTo that drops the home content on the way to home
navigateToRefreshing(w, view) ==
  LET reset == IF view = "home"
               THEN SetSignal(SetSignal(w, "vocabularyQuestions", <<>>),
                              "homeContent", Null)
               ELSE w
  IN SetSignal(reset, "appState", view)

navigateTo(w, view) ==
  LET reset == IF view = "home" THEN SetSignal(w, "vocabularyQuestions", <<>>) ELSE w
  IN SetSignal(reset, "appState", view)

NavigateTo ==
  /\ appState \in {"home", "chatting", "vocabularyQuiz"}
  /\ \E view \in {"home", "chatting"} : Commit(Flush(navigateTo(World, view)))

(***************************************************************************)
(* Chat: onUserInput (1107-1110), sendMessage (940-972), the continuation  *)
(* of initializeChat (732-743), clearChat (1112-1118).                     *)
(***************************************************************************)
onUserInput(w, value) == SetSignal(w, "userInput", value)

OnUserInput ==
  /\ appState = "chatting"
  /\ \E value \in UserInputs : Commit(Flush(onUserInput(World, value)))

\* sendMessage that does not look at isLoading
sendMessageWhileLoading(w) ==
  LET userMessageText == w.userInput
  IN IF Trim(userMessageText) = ""
     THEN w
     ELSE LET appended == SetSignal(w, "messages",
                             Append(w.messages,
                                    [role |-> "user", text |-> userMessageText]))
              loading == SetSignal(SetSignal(SetSignal(appended, "userInput", ""),
                                             "isLoading", TRUE),
                                   "error", Null)
          IN IF ~loading.chat
             THEN SetSignal(handleError([loading EXCEPT !.chatRequests = @ + 1],
                                        "chat"),
                            "isLoading", FALSE)
             ELSE StartStream(loading, "send", w.messages)

\* sendMessage up to its await; without a chat session this.chat is undefined
\* and the call throws inside the try block
sendMessage(w) ==
  LET userMessageText == w.userInput
  IN IF Trim(userMessageText) = "" \/ w.isLoading
     THEN w
     ELSE LET appended == SetSignal(w, "messages",
                             Append(w.messages,
                                    [role |-> "user", text |-> userMessageText]))
              loading == SetSignal(SetSignal(SetSignal(appended, "userInput", ""),
                                             "isLoading", TRUE),
                                   "error", Null)
          IN IF ~loading.chat
             THEN SetSignal(handleError([loading EXCEPT !.chatRequests = @ + 1],
                                        "chat"),
                            "isLoading", FALSE)
             ELSE StartStream(loading, "send", w.messages)

SendMessage ==
  /\ appState = "chatting"
  /\ chatRequests < MaxChatRequests
  /\ Commit(Flush(sendMessage(World)))

\* the call that owns the stream fails: sendMessage catches (967-971),
\* initializeChat does not and its promise is rejected
streamFailed(w, call) ==
  IF call.op = "send"
  THEN SetSignal(handleError(w, "chat"), "isLoading", FALSE)
  ELSE w

\* sendMessageStream has answered: the placeholder is put in the log
streamOpened(w, i) ==
  LET call == w.pending[i]
      log == IF call.op = "send"
             THEN Append(w.messages, [role |-> "model", text |-> ""])
             ELSE <<[role |-> "model", text |-> ""]>>
      opened == SetSignal(w, "messages", log)
  IN [opened EXCEPT !.pending[i].phase = "stream",
                    !.pending[i].slot = Len(log)]

\* one fragment of the stream: the text so far is written to the last
\* message (sendMessage) or to the first (initializeChat); on an empty log
\* the write throws a TypeError
streamChunk(w, i, fragment) ==
  LET call == w.pending[i]
      streamingText == call.streamingText \o fragment
      target == IF call.op = "send" THEN Len(w.messages) ELSE 1
  IN IF Len(w.messages) = 0
     THEN streamFailed(Resume(w, i), call)
     ELSE LET written == SetSignal(w, "messages",
                            [w.messages EXCEPT ![target].text = streamingText])
          IN [written EXCEPT !.pending[i].streamingText = streamingText,
                             !.pending[i].received = Append(@, fragment)]

\* the stream is exhausted
streamEnded(w, i) == SetSignal(Resume(w, i), "isLoading", FALSE)

IsStream(call) == call.op \in {"greeting", "send"}

StreamOpen ==
  \E i \in 1..Len(pending) :
    /\ IsStream(pending[i])
    /\ pending[i].phase = "request"
    /\ Commit(Flush(streamOpened(World, i)))

StreamChunk ==
  \E i \in 1..Len(pending) :
    /\ IsStream(pending[i])
    /\ pending[i].phase = "stream"
    /\ Len(pending[i].received) < MaxFragments
    /\ Commit(Flush(streamChunk(World, i, Fragment(Len(pending[i].received) + 1))))

StreamEnd ==
  \E i \in 1..Len(pending) :
    /\ IsStream(pending[i])
    /\ pending[i].phase = "stream"
    /\ Commit(Flush(streamEnded(World, i)))

StreamFail ==
  \E i \in 1..Len(pending) :
    /\ IsStream(pending[i])
    /\ Commit(Flush(streamFailed(Resume(World, i), pending[i])))

\* clearChat that starts the new session before it removes the stored copy
clearChatInitFirst(w, confirmed) ==
  IF confirmed
  THEN RemoveItem(initializeChat(SetSignal(w, "messages", <<>>), "clearChat"),
                  "chatHistory")
  ELSE w

\* the calls in flight keep running across a clearChat: they are only noted
\* as belonging to the cleared conversation
MarkCleared(w) ==
  [w EXCEPT !.pending =
     [j \in 1..Len(w.pending) |->
        IF w.pending[j].op \in {"greeting", "send"}
        THEN [w.pending[j] EXCEPT !.cleared = TRUE]
        ELSE w.pending[j]]]

clearChat(w, confirmed) ==
  IF confirmed
  THEN initializeChat(RemoveItem(SetSignal(MarkCleared(w), "messages", <<>>),
                                 "chatHistory"),
                      "clearChat")
  ELSE w

ClearChat ==
  /\ appState = "chatting"
  /\ chatRequests < MaxChatRequests
  /\ \E confirmed \in BOOLEAN : Commit(Flush(clearChat(World, confirmed)))

(***************************************************************************)
(* The chat flow: startup, navigation between home and chat, the chat      *)
(* handlers and the gateway's answers to the chat requests.                *)
(***************************************************************************)
NextChat ==
  \/ Timer
  \/ NavigateTo
  \/ OnUserInput
  \/ SendMessage
  \/ StreamOpen
  \/ StreamChunk
  \/ StreamEnd
  \/ StreamFail
  \/ ClearChat

SpecChat == Init /\ [][NextChat]_vars

\* the chat flow of a user who never clears the conversation
NextChatNoClear ==
  \/ Timer
  \/ NavigateTo
  \/ OnUserInput
  \/ SendMessage
  \/ StreamOpen
  \/ StreamChunk
  \/ StreamEnd
  \/ StreamFail

SpecChatNoClear == Init /\ [][NextChatNoClear]_vars

(***************************************************************************)
(* Onboarding: selectLanguage (684-688) and handleNameSubmit (746-756).    *)
(***************************************************************************)
Languages == {"en", "fa"}

selectLanguage(w, lang) ==
  SetSignal(SetItem(SetSignal(w, "uiLanguage", lang), "uiLanguage", lang),
            "appState", "onboarding")

SelectLanguage ==
  /\ appState = "languageSelection"
  /\ \E lang \in Languages : Commit(Flush(selectLanguage(World, lang)))

handleNameSubmit(w, value) ==
  LET name == Trim(value)
  IN IF name # ""
     THEN SetSignal(SetSignal(SetItem(w, "userName", name), "userName", name),
                    "appState", "placementTest")
     ELSE w

HandleNameSubmit ==
  /\ appState = "onboarding"
  /\ \E value \in Names : Commit(Flush(handleNameSubmit(World, value)))

(***************************************************************************)
(* The placement test: the continuation of generatePlacementTest (793-798),*)
(* selectAnswer (801-803), submitAnswer (805-816), evaluateTest (818-868)  *)
(* and finishTestAndGoHome (870-872).                                      *)
(***************************************************************************)
\* the question lists the gateway may answer a generation request with
GeneratedTests == SeqsUpTo(TestQuestionPool, MaxQuestions)

\* the values of 'level' in the object the gateway may answer an evaluation
\* with: the object is parsed and cast, never validated
LevelResponses == EnglishLevels \cup {"Expert", Undefined}

placementGenerated(w, i, questions) ==
  SetSignal(SetSignal(Resume(w, i), "testQuestions", questions),
            "placementTestState", "taking")

placementFailed(w, i) == handleError(Resume(w, i), "home")

PlacementResolve ==
  \E i \in 1..Len(pending) :
    /\ pending[i].op = "placement"
    /\ \E questions \in GeneratedTests :
         Commit(Flush(placementGenerated(World, i, questions)))

PlacementFail ==
  \E i \in 1..Len(pending) :
    /\ pending[i].op = "placement"
    /\ Commit(Flush(placementFailed(World, i)))

selectAnswer(w, answer) == SetSignal(w, "selectedAnswer", answer)

SelectAnswer ==
  /\ appState = "placementTest"
  /\ placementTestState = "taking"
  /\ currentQuestionIndex < Len(testQuestions)
  /\ \E answer \in Options : Commit(Flush(selectAnswer(World, answer)))

\* evaluateTest up to its await: the request holds one triple per question
evaluateTest(w) ==
  LET started == SetSignal(SetSignal(w, "placementTestState", "evaluating"),
                           "homeError", Null)
      questionsAndAnswers ==
        [i \in 1..Len(w.testQuestions) |->
           [question |-> w.testQuestions[i].question,
            correct_answer |-> w.testQuestions[i].correct_answer,
            user_answer |-> IF i <= Len(w.userAnswers)
                            THEN w.userAnswers[i] ELSE Undefined]]
  IN Await([started EXCEPT !.evaluations =
                             Append(@, [request |-> questionsAndAnswers,
                                        questions |-> w.testQuestions,
                                        submitted |-> w.submitted])],
           [op |-> "evaluate"])

\* submitAnswer that evaluates the test after every answer
submitAnswerEager(w) ==
  IF w.selectedAnswer = Null
  THEN w
  ELSE evaluateTest(SetSignal(w, "userAnswers",
                              Append(w.userAnswers, w.selectedAnswer)))

\* submitted keeps, for each question, the answer the user submitted last
submitAnswer(w) ==
  IF w.selectedAnswer = Null
  THEN w
  ELSE LET index == w.currentQuestionIndex
           recorded ==
             [w EXCEPT !.submitted =
                 IF index + 1 <= Len(@)
                 THEN [@ EXCEPT ![index + 1] = w.selectedAnswer]
                 ELSE Append(@, w.selectedAnswer)]
           answered == SetSignal(recorded, "userAnswers",
                                 Append(w.userAnswers, w.selectedAnswer))
       IN IF index < Len(w.testQuestions) - 1
          THEN SetSignal(SetSignal(answered, "currentQuestionIndex", index + 1),
                         "selectedAnswer", Null)
          ELSE evaluateTest(answered)

SubmitAnswer ==
  /\ appState = "placementTest"
  /\ placementTestState = "taking"
  /\ Len(evaluations) < MaxEvaluations
  /\ Commit(Flush(submitAnswer(World)))

testEvaluated(w, i, level) ==
  LET result == [level |-> level, feedback |-> "ok"]
      shown == SetSignal(SetSignal(Resume(w, i), "testResult", Some(result)),
                         "englishLevel", result.level)
  IN SetSignal(SetItem(shown, "englishLevel", ToStorageString(result.level)),
               "placementTestState", "results")

\* an evaluation that clears the collected answers when it fails
evaluationFailedClearing(w, i) ==
  SetSignal(SetSignal(handleError(Resume(w, i), "home"), "userAnswers", <<>>),
            "placementTestState", "taking")

evaluationFailed(w, i) ==
  SetSignal(handleError(Resume(w, i), "home"), "placementTestState", "taking")

EvaluateResolve ==
  \E i \in 1..Len(pending) :
    /\ pending[i].op = "evaluate"
    /\ \E level \in LevelResponses : Commit(Flush(testEvaluated(World, i, level)))

EvaluateFail ==
  \E i \in 1..Len(pending) :
    /\ pending[i].op = "evaluate"
    /\ Commit(Flush(evaluationFailed(World, i)))

finishTestAndGoHome(w) == SetSignal(w, "appState", "home")

FinishTestAndGoHome ==
  /\ appState = "placementTest"
  /\ placementTestState = "results"
  /\ Commit(Flush(finishTestAndGoHome(World)))

(***************************************************************************)
(* The placement flow: startup, onboarding, the test and the gateway's     *)
(* answers to its requests.                                                *)
(***************************************************************************)
NextPlacement ==
  \/ Timer
  \/ SelectLanguage
  \/ HandleNameSubmit
  \/ PlacementResolve
  \/ PlacementFail
  \/ SelectAnswer
  \/ SubmitAnswer
  \/ EvaluateResolve
  \/ EvaluateFail
  \/ FinishTestAndGoHome

SpecPlacement == Init /\ [][NextPlacement]_vars

(***************************************************************************)
(* The vocabulary quiz: startVocabularyQuiz (976-989),                     *)
(* generateVocabularyQuiz (991-1029), selectVocabularyAnswer (1031-1035),  *)
(* nextVocabularyQuestion (1037-1047), showVocabularyQuizResults           *)
(* (1049-1083).                                                            *)
(***************************************************************************)
\* the question lists the gateway may answer a quiz request with
GeneratedQuizzes ==
  {SubSeq(VocabularyQuestionPool, 1, n) : n \in 0..MaxQuestions}

\* the feedback text the gateway writes
FeedbackText == "well done"

\* generateVocabularyQuiz up to its await; without an API key the GoogleGenAI
\* constructor throws inside the try block
generateVocabularyQuiz(w) ==
  IF ~w.apiKey
  THEN SetSignal(handleError(w, "home"), "appState", "home")
  ELSE [Await(w, [op |-> "quiz"]) EXCEPT !.quizRequests = @ + 1]

startVocabularyQuiz(w) ==
  LET w1 == SetSignal(w, "vocabularyQuizState", "generating")
      w2 == SetSignal(w1, "vocabularyQuestions", <<>>)
      w3 == SetSignal(w2, "currentVocabularyQuestionIndex", 0)
      w4 == SetSignal(w3, "selectedVocabularyAnswer", Null)
      w5 == SetSignal(w4, "userVocabularyAnswers", <<>>)
      w6 == SetSignal(w5, "vocabularyQuizResult", None)
      w7 == SetSignal(w6, "isAnswerChecked", FALSE)
      w8 == SetSignal(w7, "homeError", Null)
  IN generateVocabularyQuiz(SetSignal(w8, "appState", "vocabularyQuiz"))

StartVocabularyQuiz ==
  /\ appState \in {"home", "chatting", "vocabularyQuiz"}
  /\ quizRequests < MaxQuizRequests
  /\ Commit(Flush(startVocabularyQuiz(World)))

quizGenerated(w, i, questions) ==
  SetSignal(SetSignal(Resume(w, i), "vocabularyQuestions", questions),
            "vocabularyQuizState", "taking")

quizFailed(w, i) == SetSignal(handleError(Resume(w, i), "home"), "appState", "home")

QuizResolve ==
  \E i \in 1..Len(pending) :
    /\ pending[i].op = "quiz"
    /\ \E questions \in GeneratedQuizzes :
         Commit(Flush(quizGenerated(World, i, questions)))

QuizFail ==
  \E i \in 1..Len(pending) :
    /\ pending[i].op = "quiz"
    /\ Commit(Flush(quizFailed(World, i)))

\* selectVocabularyAnswer without the check of isAnswerChecked
selectVocabularyAnswerUnlocked(w, answer) ==
  SetSignal(SetSignal(w, "selectedVocabularyAnswer", answer),
            "isAnswerChecked", TRUE)

selectVocabularyAnswer(w, answer) ==
  IF w.isAnswerChecked
  THEN w
  ELSE SetSignal(SetSignal(w, "selectedVocabularyAnswer", answer),
                 "isAnswerChecked", TRUE)

SelectVocabularyAnswer ==
  /\ appState = "vocabularyQuiz"
  /\ vocabularyQuizState = "taking"
  /\ currentVocabularyQuestionIndex < Len(vocabularyQuestions)
  /\ \E answer \in Options : Commit(Flush(selectVocabularyAnswer(World, answer)))

\* the forEach of showVocabularyQuizResults from the i-th question on:
\* graded holds score and wordsToReview so far
RECURSIVE GradeFrom(_, _, _, _)
GradeFrom(questions, answers, i, graded) ==
  IF i > Len(questions)
  THEN graded
  ELSE LET q == questions[i]
           userAnswer == IF i <= Len(answers) THEN answers[i] ELSE Null
       IN IF q.correct_answer = userAnswer
          THEN GradeFrom(questions, answers, i + 1,
                         [graded EXCEPT !.score = @ + 1])
          ELSE GradeFrom(questions, answers, i + 1,
                         [graded EXCEPT !.wordsToReview =
                            Append(@, [question |-> q.question,
                                       yourAnswer |-> userAnswer,
                                       correctAnswer |-> q.correct_answer,
                                       definition |-> q.definition])])

\* a grading that leaves the unanswered questions out of the review list
GradeAnswered(questions, answers) ==
  LET graded == GradeFrom(questions, answers, 1,
                          [score |-> 0, wordsToReview |-> <<>>])
  IN [graded EXCEPT !.wordsToReview =
        SelectSeq(@, LAMBDA word : word.yourAnswer # Null)]

\* a grading that lists the words to review last question first
GradeReversed(questions, answers) ==
  LET graded == GradeFrom(questions, answers, 1,
                          [score |-> 0, wordsToReview |-> <<>>])
      n == Len(graded.wordsToReview)
  IN [graded EXCEPT !.wordsToReview = [k \in 1..n |-> @[n + 1 - k]]]

Grade(questions, answers) ==
  GradeFrom(questions, answers, 1, [score |-> 0, wordsToReview |-> <<>>])

\* showVocabularyQuizResults up to its await: the call keeps its locals
showVocabularyQuizResults(w) ==
  LET questions == w.vocabularyQuestions
      answers == w.userVocabularyAnswers
      graded == Grade(questions, answers)
  IN [Await(w, [op |-> "feedback", questions |-> questions,
                userAnswers |-> answers, score |-> graded.score,
                wordsToReview |-> graded.wordsToReview])
        EXCEPT !.quizRequests = @ + 1]

nextVocabularyQuestion(w) ==
  LET answered == SetSignal(w, "userVocabularyAnswers",
                            Append(w.userVocabularyAnswers,
                                   w.selectedVocabularyAnswer))
      index == w.currentVocabularyQuestionIndex
  IN IF index < Len(w.vocabularyQuestions) - 1
     THEN SetSignal(SetSignal(SetSignal(answered,
                                        "currentVocabularyQuestionIndex", index + 1),
                              "selectedVocabularyAnswer", Null),
                    "isAnswerChecked", FALSE)
     ELSE showVocabularyQuizResults(answered)

NextVocabularyQuestion ==
  /\ appState = "vocabularyQuiz"
  /\ vocabularyQuizState = "taking"
  /\ quizRequests < MaxQuizRequests
  /\ Commit(Flush(nextVocabularyQuestion(World)))

\* the text of the feedback the component writes itself
DefaultFeedback(score, total) == <<"Good job! You got ", score, " out of ", total, ".">>

resultsShown(w, i, feedback) ==
  LET call == w.pending[i]
      result == [score |-> call.score, total |-> Len(call.questions),
                 feedback |-> feedback, wordsToReview |-> call.wordsToReview]
  IN SetSignal(SetSignal(Resume(w, i), "vocabularyQuizResult", Some(result)),
               "vocabularyQuizState", "results")

FeedbackResolve ==
  \E i \in 1..Len(pending) :
    /\ pending[i].op = "feedback"
    /\ Commit(Flush(resultsShown(World, i, <<FeedbackText>>)))

\* a feedback failure handled as a generation failure is: banner and home
feedbackFailedGoingHome(w, i) ==
  SetSignal(handleError(Resume(w, i), "home"), "appState", "home")

\* the feedback request fails: the catch only logs, feedback keeps its default
feedbackFailed(w, i) ==
  resultsShown(w, i, DefaultFeedback(w.pending[i].score,
                                     Len(w.pending[i].questions)))

FeedbackFail ==
  \E i \in 1..Len(pending) :
    /\ pending[i].op = "feedback"
    /\ Commit(Flush(feedbackFailed(World, i)))

(***************************************************************************)
(* The quiz flow: startup, navigation, the quiz and the gateway's answers  *)
(* to its requests.                                                        *)
(***************************************************************************)
NextQuiz ==
  \/ Timer
  \/ NavigateTo
  \/ StartVocabularyQuiz
  \/ QuizResolve
  \/ QuizFail
  \/ SelectVocabularyAnswer
  \/ NextVocabularyQuestion
  \/ FeedbackResolve
  \/ FeedbackFail

SpecQuiz == Init /\ [][NextQuiz]_vars

(***************************************************************************)
(* The standalone greeting component (src/unnamed/part_000, lines 21-53).  *)
(***************************************************************************)
GreeterKeyError ==
  "API key is not configured. Please set the API_KEY environment variable."
GreeterFetchError ==
  "Failed to fetch a greeting from the Gemini API. Please check the console for more details."
GreetingText == "Welcome!"

\* ngOnInit that asks for the greeting without looking at the API key
ngOnInitUnchecked(g, key) == [g EXCEPT !.phase = "waiting"]

\* ngOnInit up to its await
ngOnInit(g, key) ==
  IF ~key
  THEN [g EXCEPT !.error = GreeterKeyError, !.isLoading = FALSE, !.phase = "done"]
  ELSE [g EXCEPT !.phase = "waiting"]

greetingFetched(g) ==
  [g EXCEPT !.greeting = GreetingText, !.isLoading = FALSE, !.phase = "done"]

greetingFailed(g) ==
  [g EXCEPT !.error = GreeterFetchError, !.isLoading = FALSE, !.phase = "done"]

NgOnInit ==
  /\ greeter.phase = "created"
  /\ Commit([World EXCEPT !.greeter = ngOnInit(@, apiKey)])

GreeterResolve ==
  /\ greeter.phase = "waiting"
  /\ Commit([World EXCEPT !.greeter = greetingFetched(@)])

GreeterFail ==
  /\ greeter.phase = "waiting"
  /\ Commit([World EXCEPT !.greeter = greetingFailed(@)])

(***************************************************************************)
(* The home flow: startup, the home content request and its answers,       *)
(* navigation, and the start of a quiz with the answers to its generation  *)
(* request.                                                                *)
(***************************************************************************)
NextHome ==
  \/ Timer
  \/ NavigateTo
  \/ HomeResolve
  \/ HomeFail
  \/ StartVocabularyQuiz
  \/ QuizResolve
  \/ QuizFail

SpecHome == Init /\ [][NextHome]_vars

(***************************************************************************)
(* Entering the screens: the home flow, and the greeting component beside  *)
(* it.                                                                     *)
(***************************************************************************)
NextEntry ==
  \/ NextHome
  \/ NgOnInit
  \/ GreeterResolve
  \/ GreeterFail

SpecEntry == Init /\ [][NextEntry]_vars

(***************************************************************************)
(* Navigation: the user moves between home, the chat and the vocabulary    *)
(* quiz and clears the conversation, and the gateway answers.              *)
(***************************************************************************)
NextNavigation ==
  \/ Timer
  \/ NavigateTo
  \/ ClearChat
  \/ StreamOpen
  \/ StreamEnd
  \/ StreamFail
  \/ StartVocabularyQuiz
  \/ QuizResolve
  \/ QuizFail

SpecNavigation == Init /\ [][NextNavigation]_vars

(***************************************************************************)
(* The session over several runs: onboarding and the placement test, the   *)
(* theme switch and restarts of the application.                           *)
(***************************************************************************)
NextSession ==
  \/ NextPlacement
  \/ ToggleTheme
  \/ Restart

SpecSession == Init /\ [][NextSession]_vars


(***************************************************************************)
(* Claims on the chat flow.                                                *)
(***************************************************************************)
RECURSIVE Concat(_)
Concat(fragments) ==
  IF fragments = <<>> THEN "" ELSE Head(fragments) \o Concat(Tail(fragments))

\* s is a subsequence of t: the elements of s occur in t, in the same order
RECURSIVE IsSubsequence(_, _)
IsSubsequence(s, t) ==
  IF s = <<>> THEN TRUE
  ELSE IF t = <<>> THEN FALSE
  ELSE IF Head(s) = Head(t) THEN IsSubsequence(Tail(s), Tail(t))
  ELSE IsSubsequence(s, Tail(t))

\* the step in which the stream of the i-th call in flight ends, and the one in
\* which that call fails
StreamEndStep(i) ==
  /\ pending[i].phase = "stream"
  /\ Commit(Flush(streamEnded(World, i)))
StreamFailStep(i) == Commit(Flush(streamFailed(Resume(World, i), pending[i])))

\* C1: when the stream of a sendMessage call ends, the model message the call
\* appended holds the concatenation of the fragments received, in order.
C1_StreamedTextIsConcatenation ==
  [][\A i \in 1..Len(pending) :
       (pending[i].op = "send" /\ StreamEndStep(i))
       => /\ pending[i].slot <= Len(messages')
          /\ messages'[pending[i].slot].role = "model"
          /\ messages'[pending[i].slot].text = Concat(pending[i].received)]_vars

\* C2: at most one streaming operation (the response of a sendMessage, the
\* greeting of initializeChat) is in flight on the message log at any time.
C2_OneStreamAtATime ==
  Cardinality({i \in 1..Len(pending) : IsStream(pending[i])}) <= 1

\* C3: when a sendMessage call fails, the chat error is set, the log holds no
\* empty placeholder and every message the log held before the call is still
\* in it, in the same order and with the same text.
C3_FailureKeepsHistory ==
  [][\A i \in 1..Len(pending) :
       (pending[i].op = "send" /\ StreamFailStep(i))
       => /\ error' # Null
          /\ \A k \in 1..Len(messages') :
               ~(messages'[k].role = "model" /\ messages'[k].text = "")
          /\ IsSubsequence(pending[i].logBefore, messages')]_vars

\* C4: a confirmed clearChat empties the message log and removes the
\* chatHistory entry, both before the new chat session is created; a
\* declined clearChat changes nothing.
C4_ClearChatClearsFirst ==
  /\ [](\A k \in 1..Len(sessions) :
          sessions[k].origin = "clearChat"
          => sessions[k].logEmpty /\ ~sessions[k].stored)
  /\ [][(appState = "chatting" /\ Commit(Flush(clearChat(World, TRUE))))
        => (messages' = <<>> /\ localStorage'.chatHistory = None)]_vars
  /\ [][(appState = "chatting" /\ Commit(Flush(clearChat(World, FALSE))))
        => UNCHANGED vars]_vars

\* a restored conversation has been cleared and a new session created
C4_Witness ==
  /\ Len(sessions) = 2
  /\ sessions[1].stored
  /\ sessions[2].origin = "clearChat"
  /\ messages = <<>>
  /\ localStorage.chatHistory = None

(***************************************************************************)
(* Claims on the placement flow.                                           *)
(***************************************************************************)
\* the step in which the i-th call in flight, an evaluation, fails
EvaluateFailStep(i) ==
  /\ pending[i].op = "evaluate"
  /\ Commit(Flush(evaluationFailed(World, i)))

\* C5: once an evaluation has succeeded (the test shows its results),
\* englishLevel and the stored englishLevel entry each hold one of Beginner,
\* Intermediate and Advanced, whatever object the gateway answered with.
C5_LevelIsOneOfThree ==
  placementTestState = "results"
  => /\ englishLevel \in EnglishLevels
     /\ localStorage.englishLevel \in EnglishLevels

\* C8: every evaluation request holds one triple per question, in the order
\* of the questions, and the user_answer of the i-th triple is the answer the
\* user submitted for the i-th question, on a retry as well.
C8_RequestHoldsSubmittedAnswers ==
  \A k \in 1..Len(evaluations) :
    LET e == evaluations[k]
    IN /\ Len(e.request) = Len(e.questions)
       /\ \A i \in 1..Len(e.request) :
            /\ e.request[i].question = e.questions[i].question
            /\ e.request[i].correct_answer = e.questions[i].correct_answer
            /\ i <= Len(e.submitted)
            /\ e.request[i].user_answer = e.submitted[i]

\* C9: when the gateway fails an evaluation, the test is back in 'taking',
\* homeError is set, the answers and the questions are as they were, and
\* neither englishLevel nor its stored entry is written.
C9_FailedEvaluationKeepsTest ==
  [][\A i \in 1..Len(pending) :
       EvaluateFailStep(i)
       => /\ placementTestState' = "taking"
          /\ homeError' # Null
          /\ userAnswers' = userAnswers
          /\ testQuestions' = testQuestions
          /\ englishLevel' = englishLevel
          /\ englishLevel' = Null
          /\ localStorage'.englishLevel = localStorage.englishLevel
          /\ localStorage'.englishLevel = Null
          /\ testResult' = None]_vars

\* an evaluation of a fully answered test has failed
C9_Witness ==
  /\ appState = "placementTest"
  /\ placementTestState = "taking"
  /\ homeError = AiError
  /\ Len(evaluations) >= 1
  /\ Len(testQuestions) > 0
  /\ Len(userAnswers) = Len(testQuestions)
  /\ englishLevel = Null
  /\ localStorage.englishLevel = Null

(***************************************************************************)
(* Claims on the vocabulary quiz.                                          *)
(***************************************************************************)
\* the showVocabularyQuizResults calls awaiting their feedback
FeedbackCalls ==
  {pending[i] : i \in {j \in 1..Len(pending) : pending[j].op = "feedback"}}

\* the step in which showVocabularyQuizResults is called, and the one in which
\* the i-th call in flight, a showVocabularyQuizResults, shows its result
ShowResultsStep ==
  /\ Len(pending') = Len(pending) + 1
  /\ pending'[Len(pending')].op = "feedback"
ResultStep(i) ==
  /\ pending[i].op = "feedback"
  /\ \E feedback \in {<<FeedbackText>>,
                      DefaultFeedback(pending[i].score, Len(pending[i].questions))} :
       Commit(Flush(resultsShown(World, i, feedback)))

\* the questions answered with their correct_answer
CorrectlyAnswered(questions, answers) ==
  {i \in 1..Len(questions) :
     i <= Len(answers) /\ answers[i] = questions[i].correct_answer}

\* the review entries of the other questions, in the order of the questions
ExpectedReview(questions, answers) ==
  LET correct == CorrectlyAnswered(questions, answers)
      others == SelectSeq([i \in 1..Len(questions) |-> i],
                          LAMBDA i : i \notin correct)
  IN [k \in 1..Len(others) |->
        [question |-> questions[others[k]].question,
         yourAnswer |-> IF others[k] <= Len(answers)
                        THEN answers[others[k]] ELSE Null,
         correctAnswer |-> questions[others[k]].correct_answer,
         definition |-> questions[others[k]].definition]]

\* C6: in every vocabulary result score + wordsToReview.length = total, and
\* total is the number of questions of the quiz the result was computed for.
C6_ScorePlusReviewIsTotal ==
  /\ [](\A call \in FeedbackCalls :
          call.score + Len(call.wordsToReview) = Len(call.questions))
  /\ [](vocabularyQuizResult # None
        => vocabularyQuizResult[1].score
             + Len(vocabularyQuizResult[1].wordsToReview)
           = vocabularyQuizResult[1].total)
  /\ [][ShowResultsStep
        => pending'[Len(pending')].questions = vocabularyQuestions]_vars
  /\ [][\A i \in 1..Len(pending) :
          ResultStep(i)
          => vocabularyQuizResult'[1].total = Len(pending[i].questions)]_vars

\* a result of a quiz of MaxQuestions questions, some answered correctly and
\* some not
C6_Witness ==
  /\ vocabularyQuizResult # None
  /\ vocabularyQuizResult[1].total = MaxQuestions
  /\ vocabularyQuizResult[1].score >= 1
  /\ Len(vocabularyQuizResult[1].wordsToReview) >= 1

\* C7: score is the number of questions whose recorded answer is exactly the
\* correct_answer; wordsToReview holds the other questions, in their order,
\* each with its question, the recorded answer (null when none was selected),
\* the correct answer and the definition.
C7_ScoreCountsExactMatches ==
  /\ [](\A call \in FeedbackCalls :
          /\ call.score
               = Cardinality(CorrectlyAnswered(call.questions, call.userAnswers))
          /\ call.wordsToReview
               = ExpectedReview(call.questions, call.userAnswers))
  /\ [][ShowResultsStep
        => /\ pending'[Len(pending')].questions = vocabularyQuestions'
           /\ pending'[Len(pending')].userAnswers = userVocabularyAnswers']_vars
  /\ [][\A i \in 1..Len(pending) :
          ResultStep(i)
          => /\ vocabularyQuizResult'[1].score = pending[i].score
             /\ vocabularyQuizResult'[1].wordsToReview
                  = pending[i].wordsToReview]_vars

\* a result with two words to review: one left unanswered, one answered
\* wrongly
C7_Witness ==
  /\ vocabularyQuizResult # None
  /\ Len(vocabularyQuizResult[1].wordsToReview) >= 2
  /\ \E k \in 1..Len(vocabularyQuizResult[1].wordsToReview) :
       vocabularyQuizResult[1].wordsToReview[k].yourAnswer = Null
  /\ \E k \in 1..Len(vocabularyQuizResult[1].wordsToReview) :
       vocabularyQuizResult[1].wordsToReview[k].yourAnswer \in Options

\* the steps of selectVocabularyAnswer, and the step of
\* nextVocabularyQuestion that advances to the next question
SelectStep(answer) ==
  /\ appState = "vocabularyQuiz"
  /\ vocabularyQuizState = "taking"
  /\ currentVocabularyQuestionIndex < Len(vocabularyQuestions)
  /\ Commit(Flush(selectVocabularyAnswer(World, answer)))
AdvanceStep ==
  /\ appState = "vocabularyQuiz"
  /\ vocabularyQuizState = "taking"
  /\ currentVocabularyQuestionIndex < Len(vocabularyQuestions) - 1
  /\ Commit(Flush(nextVocabularyQuestion(World)))

\* C10: the first selectVocabularyAnswer on a question sets the selection and
\* locks it; while the lock holds, a further selectVocabularyAnswer changes
\* nothing and no step changes the selection; advancing to the next question
\* removes the lock and the selection.
C10_FirstSelectionIsFinal ==
  /\ [][\A answer \in Options :
          SelectStep(answer)
          => IF isAnswerChecked
             THEN UNCHANGED vars
             ELSE selectedVocabularyAnswer' = answer /\ isAnswerChecked']_vars
  /\ [][(isAnswerChecked /\ isAnswerChecked')
        => selectedVocabularyAnswer' = selectedVocabularyAnswer]_vars
  /\ [][AdvanceStep
        => /\ ~isAnswerChecked'
           /\ selectedVocabularyAnswer' = Null
           /\ currentVocabularyQuestionIndex'
                = currentVocabularyQuestionIndex + 1]_vars

\* the second question has been answered after the first was
C10_Witness ==
  /\ appState = "vocabularyQuiz"
  /\ vocabularyQuizState = "taking"
  /\ currentVocabularyQuestionIndex = 1
  /\ userVocabularyAnswers = <<"A">>
  /\ isAnswerChecked
  /\ selectedVocabularyAnswer = "B"

(***************************************************************************)
(* Claims on failures.                                                     *)
(***************************************************************************)
\* the step in which the feedback request of the i-th call in flight fails
FeedbackFailStep(i) ==
  /\ pending[i].op = "feedback"
  /\ Commit(Flush(feedbackFailed(World, i)))

\* C11: when the feedback request fails, the quiz still shows its results,
\* with the score, total and wordsToReview a successful request would have
\* given and the default feedback text; homeError and appState are unchanged.
C11_FeedbackFailureStillShowsResults ==
  [][\A i \in 1..Len(pending) :
       FeedbackFailStep(i)
       => LET onSuccess ==
                resultsShown(World, i, <<FeedbackText>>).vocabularyQuizResult[1]
              shown == vocabularyQuizResult'[1]
          IN /\ vocabularyQuizState' = "results"
             /\ vocabularyQuizResult' # None
             /\ shown.score = onSuccess.score
             /\ shown.total = onSuccess.total
             /\ shown.wordsToReview = onSuccess.wordsToReview
             /\ shown.feedback = DefaultFeedback(shown.score, shown.total)
             /\ shown.feedback # onSuccess.feedback
             /\ homeError' = homeError
             /\ appState' = appState]_vars

\* a quiz shows its results with the default feedback
C11_Witness ==
  /\ appState = "vocabularyQuiz"
  /\ vocabularyQuizState = "results"
  /\ vocabularyQuizResult # None
  /\ vocabularyQuizResult[1].total = MaxQuestions
  /\ vocabularyQuizResult[1].feedback
       = DefaultFeedback(vocabularyQuizResult[1].score, MaxQuestions)

\* the step in which the generation request of the i-th call in flight fails
QuizFailStep(i) ==
  /\ pending[i].op = "quiz"
  /\ Commit(Flush(quizFailed(World, i)))

\* C12: when a quiz generation fails, homeError is set, the chat error and
\* the message log are as they were and appState is 'home'; when a chat
\* message fails, the chat error is set and homeError is as it was.
C12_ErrorsGoToTheirField ==
  [][\A i \in 1..Len(pending) :
       /\ QuizFailStep(i)
          => /\ homeError' # Null
             /\ error' = error
             /\ appState' = "home"
             /\ messages' = messages
       /\ (pending[i].op = "send" /\ StreamFailStep(i))
          => /\ error' # Null
             /\ homeError' = homeError]_vars

\* the calls of kind op among calls
InFlight(calls, op) ==
  Cardinality({j \in 1..Len(calls) : calls[j].op = op})

\* the step in which the gateway fails the i-th call in flight
FailStep(i) ==
  \/ pending[i].op = "home" /\ Commit(Flush(homeFailed(World, i)))
  \/ pending[i].op = "placement" /\ Commit(Flush(placementFailed(World, i)))
  \/ EvaluateFailStep(i)
  \/ QuizFailStep(i)
  \/ pending[i].op \in {"greeting", "send"} /\ StreamFailStep(i)

\* C13: the step that handles a failed gateway request sends no new request
\* of that kind: the failed call leaves the calls in flight and none of its
\* kind joins them.
C13_NoAutomaticRetry ==
  [][\A i \in 1..Len(pending) :
       FailStep(i)
       => InFlight(pending', pending[i].op)
            = InFlight(pending, pending[i].op) - 1]_vars

\* C14: no failure of the gateway leaves a flow waiting for an answer that
\* is not coming: with an API key, whenever a flow shows that it is waiting
\* (the test is being generated or evaluated, the quiz is being generated,
\* the chat or the home screen is loading), its request is in flight.
C14_NoFlowIsStuck ==
  apiKey
  => /\ (appState = "placementTest" /\ placementTestState = "generating")
        => InFlight(pending, "placement") > 0
     /\ (appState = "placementTest" /\ placementTestState = "evaluating")
        => InFlight(pending, "evaluate") > 0
     /\ (appState = "vocabularyQuiz" /\ vocabularyQuizState = "generating")
        => InFlight(pending, "quiz") > 0
     /\ isLoading
        => InFlight(pending, "greeting") + InFlight(pending, "send") > 0
     /\ homeIsLoading => InFlight(pending, "home") > 0

(***************************************************************************)
(* Claims on entering the screens.                                         *)
(***************************************************************************)
\* C15: without an API key no chat or home request is made and no chat
\* session is created; on home and in the chat the chat error is set; on
\* home homeError
\* is set, homeIsLoading is false and homeContent is null; the greeting
\* component, once started, has its error set, no greeting and isLoading
\* false.
C15_NoKeyNoRequest ==
  ~apiKey
  => /\ InFlight(pending, "greeting") + InFlight(pending, "send") = 0
     /\ InFlight(pending, "home") = 0
     /\ homeRequests = 0 /\ chatRequests = 0
     /\ ~chat /\ sessions = <<>>
     /\ appState \in {"home", "chatting"} => error = ApiKeyError
     /\ appState = "home"
        => homeError = HomeKeyError /\ ~homeIsLoading /\ homeContent = Null
     /\ greeter.phase \in {"created", "done"}
     /\ greeter.phase = "done"
        => /\ greeter.error = GreeterKeyError
           /\ greeter.greeting = Null
           /\ ~greeter.isLoading

\* without an API key the home screen is entered and the greeting component
\* has started
C15_Witness ==
  /\ ~apiKey
  /\ appState = "home"
  /\ error = ApiKeyError
  /\ homeError = HomeKeyError
  /\ greeter.phase = "done"

(***************************************************************************)
(* Claims on the quiz and the screens.                                     *)
(***************************************************************************)
\* C16: outside the quiz screen there are no vocabulary questions and no
\* quiz in 'taking' or 'results' that has a result.
C16_QuizStateOnlyInQuiz ==
  appState # "vocabularyQuiz"
  => /\ vocabularyQuestions = <<>>
     /\ ~(vocabularyQuizState \in {"taking", "results"}
          /\ vocabularyQuizResult # None)

\* C17: while a quiz stays in 'taking' on the quiz screen (the user neither
\* restarts the quiz nor navigates away), its questions do not change.
C17_QuestionsFixedWhileTaking ==
  [][(/\ appState = "vocabularyQuiz" /\ vocabularyQuizState = "taking"
      /\ appState' = "vocabularyQuiz" /\ vocabularyQuizState' = "taking")
     => vocabularyQuestions' = vocabularyQuestions]_vars

\* C18: with an API key, entering home or the chat creates a chat session
\* once: the session the entry effect creates is the first of the run, it
\* exists whenever home or the chat is shown, and every later session is
\* created by a confirmed clearChat.
C18_SessionCreatedOnce ==
  /\ [](\A k \in 1..Len(sessions) : sessions[k].origin = "entry" => k = 1)
  /\ []((apiKey /\ appState \in {"home", "chatting"})
        => (chat /\ Len(sessions) >= 1 /\ sessions[1].origin = "entry"))
  /\ [][(sessions' # sessions /\ sessions # <<>>)
        => /\ appState = "chatting"
           /\ Commit(Flush(clearChat(World, TRUE)))]_vars

\* the user has visited home, the quiz and the chat, and has cleared the
\* conversation once
C18_Witness ==
  /\ apiKey
  /\ appState = "home"
  /\ quizRequests >= 1
  /\ Len(sessions) = 2
  /\ sessions[1].origin = "entry"
  /\ sessions[2].origin = "clearChat"

(***************************************************************************)
(* Claims on the message log and the stored entries.                       *)
(***************************************************************************)
\* the texts a streamed message goes through
StreamedTexts ==
  {Concat(SubSeq(FragmentTexts, 1, n)) : n \in 0..Len(FragmentTexts)}

\* text t is text s with fragments appended
TextGrows(s, t) ==
  \/ s = t
  \/ s \in StreamedTexts /\ t \in StreamedTexts /\ Len(s) <= Len(t)

\* log new keeps every message of log old in its place, with its role and
\* with its text grown
LogGrows(old, new) ==
  /\ Len(old) <= Len(new)
  /\ \A k \in 1..Len(old) :
       new[k].role = old[k].role /\ TextGrows(old[k].text, new[k].text)

\* log new is log old without some of its messages of empty text
EmptyRemoved(old, new) ==
  /\ IsSubsequence(new, old)
  /\ IsSubsequence(NonEmptyMessages(old), new)

\* the step of a confirmed clearChat
ConfirmedClearStep ==
  /\ appState = "chatting"
  /\ Commit(Flush(clearChat(World, TRUE)))

\* C19: every step other than a confirmed clearChat keeps the messages of
\* the log in their places, their texts grown by fragments at most, except
\* that the step of a chat failure may remove messages of empty text.
C19_LogIsAppendOnly ==
  [][~ConfirmedClearStep
     => \/ LogGrows(messages, messages')
        \/ /\ \E i \in 1..Len(pending) :
                \/ IsStream(pending[i]) /\ StreamFailStep(i)
                \/ /\ IsStream(pending[i])
                   /\ pending[i].phase = "stream"
                   /\ Len(messages) = 0
              \/ ~chat
           /\ EmptyRemoved(messages, messages')]_vars

\* C20: once the startup timer has run, each of userName, uiLanguage,
\* englishLevel and theme equals its stored entry, when the entry exists.
C20_SessionMirrorsStorage ==
  appState # "loading"
  => /\ localStorage.userName # Null => userName = localStorage.userName
     /\ localStorage.uiLanguage # Null => uiLanguage = localStorage.uiLanguage
     /\ localStorage.englishLevel # Null
        => englishLevel = localStorage.englishLevel
     /\ theme = localStorage.theme

(***************************************************************************)
(* Claims on the home content.                                             *)
(***************************************************************************)
\* a step that takes appState into 'home'
EntersHome == appState # "home" /\ appState' = "home"

\* C21 as stated: with an API key, every transition of appState into 'home'
\* sends a new home content request.
C21_EveryVisitRefetches ==
  [][(apiKey /\ EntersHome) => homeRequests' = homeRequests + 1]_vars

\* C21: with an API key, a transition of appState into 'home' sends a home
\* content request when homeContent is absent and no load is in flight, and
\* sends none otherwise.
C21_VisitFetchesWhenAbsent ==
  [][(apiKey /\ EntersHome)
     => homeRequests'
          = IF homeContent = Null /\ ~homeIsLoading
            THEN homeRequests + 1 ELSE homeRequests]_vars

\* home is shown with its content after a visit to the quiz, and the content
\* was requested once
C21_Witness ==
  /\ apiKey
  /\ appState = "home"
  /\ homeContent # Null
  /\ quizRequests >= 1
  /\ homeRequests = 1

(***************************************************************************)
(* Claims on the states of the placement test.                             *)
(***************************************************************************)
\* the changes of placementTestState the test may make
PlacementTransitions ==
  { <<"generating", "taking">>, <<"taking", "evaluating">>,
    <<"evaluating", "results">>, <<"evaluating", "taking">> }

\* the step of a submitAnswer with an answer selected
SubmitStep ==
  /\ appState = "placementTest"
  /\ placementTestState = "taking"
  /\ selectedAnswer # Null
  /\ Commit(Flush(submitAnswer(World)))

\* C22: placementTestState changes only from generating to taking, from
\* taking to evaluating, from evaluating to results and from evaluating back
\* to taking; evaluating is entered only by a submitAnswer on the last
\* question; a submitAnswer on an earlier question appends the answer,
\* advances currentQuestionIndex by one and clears the selection; results is
\* never left.
C22_PlacementStatesInOrder ==
  /\ [][placementTestState' # placementTestState
        => <<placementTestState, placementTestState'>>
             \in PlacementTransitions]_vars
  /\ [][(placementTestState # "evaluating"
         /\ placementTestState' = "evaluating")
        => /\ SubmitStep
           /\ currentQuestionIndex = Len(testQuestions) - 1]_vars
  /\ [][(SubmitStep /\ currentQuestionIndex < Len(testQuestions) - 1)
        => /\ placementTestState' = "taking"
           /\ currentQuestionIndex' = currentQuestionIndex + 1
           /\ selectedAnswer' = Null
           /\ userAnswers' = Append(userAnswers, selectedAnswer)
           /\ pending' = pending
           /\ evaluations' = evaluations]_vars
  /\ [][placementTestState = "results"
        => placementTestState' = "results"]_vars

\* a test of MaxQuestions questions shows its results after an evaluation
\* that failed and one that succeeded
C22_Witness ==
  /\ placementTestState = "results"
  /\ Len(testQuestions) = MaxQuestions
  /\ Len(evaluations) = 2

\* the step in which the i-th call in flight, a home content load, ends
HomeLoadEndStep(i) ==
  /\ pending[i].op = "home"
  /\ \/ Commit(Flush(homeLoaded(World, i)))
     \/ Commit(Flush(homeFailed(World, i)))

\* C23, one load at a time: at most one home content request is in flight.
C23_OneHomeLoadInFlight == InFlight(pending, "home") <= 1

\* C23, no load while present: a step that sends a home content request ends
\* on the home screen without home content.
C23_NoLoadWhilePresent ==
  [][homeRequests' # homeRequests
     => appState' = "home" /\ homeContent' = Null]_vars

\* C23, loading ends: after the step that ends a home content load, with
\* success or with failure, homeIsLoading is false.
C23_LoadEndClearsLoading ==
  [][\A i \in 1..Len(pending) :
       HomeLoadEndStep(i) => homeIsLoading' = FALSE]_vars

\* C23: a home content load starts on entering 'home' only when homeContent
\* is absent and no load is in flight, so at most one home content request is
\* in flight, none is sent while homeContent is present, and homeIsLoading is
\* false after every load.
C23_HomeLoadsOneAtATime ==
  /\ []C23_OneHomeLoadInFlight
  /\ C23_NoLoadWhilePresent
  /\ C23_LoadEndClearsLoading

(***************************************************************************)
(* Claims on sending a message.                                            *)
(***************************************************************************)
\* the step of a sendMessage on the chat screen
SendStep ==
  /\ appState = "chatting"
  /\ Commit(Flush(sendMessage(World)))

\* C24: a sendMessage called while isLoading is true, or with an input that is
\* empty after trimming, changes nothing: the message log, userInput,
\* isLoading and error keep their values and no gateway request is sent.
C24_RejectedSendChangesNothing ==
  [][(SendStep /\ (isLoading \/ Trim(userInput) = ""))
     => /\ messages' = messages
        /\ userInput' = userInput
        /\ isLoading' = isLoading
        /\ error' = error
        /\ pending' = pending
        /\ chatRequests' = chatRequests]_vars

\* a message is typed on the chat screen while a stream is being received
C24_Witness ==
  /\ appState = "chatting"
  /\ isLoading
  /\ Trim(userInput) # ""
  /\ chatRequests < MaxChatRequests
  /\ \E i \in 1..Len(pending) : pending[i].op = "send"

\* the gateway answers or fails every call of the chat it has received
GatewayStep == StreamOpen \/ StreamChunk \/ StreamEnd \/ StreamFail

\* the chat flow with a gateway that eventually answers or fails
SpecChatFair == SpecChat /\ WF_vars(GatewayStep)

\* C25: provided that the gateway eventually answers or fails, whenever
\* isLoading is true, set by sendMessage or by the greeting, it eventually
\* becomes false again.
C25_LoadingEnds == isLoading ~> ~isLoading

\* the step in which the gateway opens the stream of the i-th call in flight,
\* and the one in which a fragment of that stream arrives
StreamOpenStep(i) ==
  /\ pending[i].phase = "request"
  /\ Commit(Flush(streamOpened(World, i)))
StreamChunkStep(i) ==
  /\ pending[i].phase = "stream"
  /\ Len(pending[i].received) < MaxFragments
  /\ Commit(Flush(streamChunk(World, i, Fragment(Len(pending[i].received) + 1))))

\* C26: the response of a sendMessage request that was in flight when a
\* confirmed clearChat ran, its placeholder and its fragments, is never
\* appended to the new log and never written to the stored chatHistory.
C26_ClearedResponseNeverReappears ==
  [][\A i \in 1..Len(pending) :
       (/\ pending[i].op = "send"
        /\ pending[i].cleared
        /\ StreamOpenStep(i) \/ StreamChunkStep(i))
       => /\ messages' = messages
          /\ localStorage'.chatHistory = localStorage.chatHistory]_vars

\* C27: during the placement test userAnswers is never longer than
\* testQuestions, also after an evaluation failure followed by another
\* submitAnswer, and while the test is being taken and the last answer has
\* not been submitted yet userAnswers has currentQuestionIndex answers.
C27_AnswersWithinTest ==
  appState = "placementTest"
  => /\ Len(userAnswers) <= Len(testQuestions)
     /\ (placementTestState = "taking" /\ evaluations = <<>>)
        => Len(userAnswers) = currentQuestionIndex

\* C28: the failure of a quiz generation changes appState only while the quiz
\* screen is shown: when the user has left it, for home or for the chat, the
\* late failure leaves appState as it is.
C28_LateQuizFailureKeepsScreen ==
  [][\A i \in 1..Len(pending) :
       (QuizFailStep(i) /\ appState # "vocabularyQuiz")
       => appState' = appState]_vars

(***************************************************************************)
(* Claims on the screens of a run.                                         *)
(***************************************************************************)
\* the screens of a user who has a name and a level
MainScreens == {"home", "chatting", "vocabularyQuiz"}

\* the screen the entries of a storage call for at startup
StartupScreen(storage) ==
  IF storage.userName # Null /\ storage.uiLanguage # Null
  THEN IF storage.englishLevel # Null THEN "home" ELSE "placementTest"
  ELSE "languageSelection"

\* C29: the startup timer takes appState from 'loading' to home when
\* userName, uiLanguage and englishLevel are stored, to placementTest when
\* userName and uiLanguage are stored and englishLevel is not, and to
\* languageSelection otherwise; afterwards appState is never 'loading' again,
\* and once it is home it only takes the values home, chatting and
\* vocabularyQuiz.
C29_StartupRoutesByStorage ==
  /\ [][appState = "loading"
        => appState' = StartupScreen(localStorage)]_vars
  /\ [][appState # "loading" => appState' # "loading"]_vars
  /\ [][(appState \in MainScreens) => (appState' \in MainScreens)]_vars

\* a returning user was taken to home, started a quiz and went to the chat
C29_Witness ==
  /\ appState = "chatting"
  /\ localStorage.englishLevel # Null
  /\ quizRequests >= 1

\* the step of a handleNameSubmit with a name that is empty once trimmed
EmptyNameStep ==
  /\ appState = "onboarding"
  /\ \E value \in Names :
       /\ Trim(value) = ""
       /\ Commit(Flush(handleNameSubmit(World, value)))

\* C30, the profile: on home, in the chat and in the quiz the user has a
\* name and a level.
C30_ProfileOnMainScreens ==
  appState \in MainScreens
  => /\ userName # ""
     /\ englishLevel \notin {Null, Undefined}

\* C30, the empty name: the stored userName is never empty, and submitting a
\* name that is empty once trimmed leaves the onboarding screen, userName and
\* the storage as they are.
C30_EmptyNameIsRefused ==
  /\ [](localStorage.userName # "")
  /\ [][EmptyNameStep
        => /\ appState' = "onboarding"
           /\ userName' = userName
           /\ localStorage' = localStorage]_vars

\* C30: whenever appState is home, chatting or vocabularyQuiz, userName is
\* not empty and englishLevel holds a level; a name that is empty after
\* trimming never leaves 'onboarding' and is never persisted.
C30_MainScreensHaveProfile ==
  /\ []C30_ProfileOnMainScreens
  /\ C30_EmptyNameIsRefused

(***************************************************************************)
(* Claims on the stored conversation.                                      *)
(***************************************************************************)
\* the page is reloaded while the stored conversation is short
ReloadChat ==
  /\ IF localStorage.chatHistory = None
     THEN TRUE
     ELSE Len(localStorage.chatHistory[1]) <= MaxStoredMessages
  /\ Restart

\* the chat flow over several runs of the application
NextChatRuns ==
  \/ NextChat
  \/ ReloadChat

SpecChatRuns == Init /\ [][NextChatRuns]_vars

\* the chatHistory entry that mirrors a log
StoredCopy(log) == IF log = <<>> THEN None ELSE Some(Stringify(log))

\* the step in which initializeChat creates the session of a run
SessionStartStep ==
  /\ Len(sessions') = Len(sessions) + 1
  /\ sessions'[Len(sessions')].origin = "entry"

\* C31, mirror: after a step of a run that changes the message log, the
\* stored chatHistory is the serialisation of the log, or absent when the log
\* is empty.
C31_StorageMirrorsLog ==
  [][(messages' # messages /\ appState' # "loading")
     => localStorage'.chatHistory = StoredCopy(messages')]_vars

\* C31, restore: when a run starts its session with a non-empty chatHistory
\* stored, initializeChat makes that stored log the message log and sends no
\* greeting request.
C31_RestartRestoresLog ==
  [][(/\ SessionStartStep
      /\ localStorage.chatHistory # None
      /\ Len(Parse(localStorage.chatHistory[1])) > 0)
     => /\ messages' = Parse(localStorage.chatHistory[1])
        /\ Stringify(messages') = localStorage.chatHistory[1]
        /\ chatRequests' = chatRequests
        /\ InFlight(pending', "greeting") = 0]_vars

\* C31: once the chatHistory effect has run after a change of the message
\* log, the stored chatHistory is the serialisation of the log, or absent
\* when the log is empty; a restart with a non-empty stored chatHistory
\* restores exactly that log in initializeChat and sends no greeting request.
C31_HistoryMirrorsLog ==
  /\ C31_StorageMirrorsLog
  /\ C31_RestartRestoresLog

====
